---- MODULE Spec2Model ----
(***************************************************************************)
(* A model of lavapy's Node (src/lavapy/node.py) and Player                *)
(* (src/lavapy/player.py): the attached-player list of one Node, its       *)
(* websocket, and the local playback state of each Player together with    *)
(* the payloads the Player hands to the Node for sending.                  *)
(***************************************************************************)
EXTENDS Integers, Sequences, FiniteSets, TLC

\* ------------------------------------------------------------------ bounds
MaxPlayers == 2      \* number of Player objects created on the Node
MaxAttached == 3     \* cap on the length of Node._players (connect appends)
MaxTime == 2         \* clock readings and playerUpdate times, in seconds
MaxPos == 3          \* playerUpdate positions and seek positions
MaxTracks == 2       \* length of the tracks list of a loadtracks response
MaxPending == 2      \* commands suspended in their send at the same time

Players == 1..MaxPlayers
Times == 0..MaxTime

\* Python's None, and an optional value holding v
None == <<>>
Some(v) == <<v>>

\* Track objects handed to play: an opaque id and a length
Tracks == {[id |-> "QAAA", length |-> 1], [id |-> "QBBB", length |-> 3]}

\* arguments the callers pass
PlayVolumes == {-5, 100, 5000}
SetVolumes == {-5, 0, 100, 1000, 1001, 5000}
StartTimes == {0, 1000}
EndTimes == {-1, 0, 30000}
SeekPositions == (-1)..MaxPos
\* playerUpdate state: time and position arrive in milliseconds
StateTimes == {1000 * t : t \in Times}
StatePositions == {1000 * q : q \in 0..MaxPos}

\* filters: a name and a payload
FilterNames == {"equalizer", "karaoke"}
FilterPayloads == {1, 2}
Filters == [name : FilterNames, payload : FilterPayloads]

\* voice handshake data sent by Discord
SessionIds == {"s1", "s2"}
VoiceEvents == {"e1", "e2"}
Channels == {"c1", "c2"}

VARIABLES
    players,          \* Node._players
    websocket,        \* Node._websocket
    pending,          \* frames awaiting in Node._send: the suspended commands
    connected,        \* Player._connected
    track,            \* Player._track
    volume,           \* Player._volume
    filters,          \* Player._filters
    voiceState,       \* Player._voiceState
    paused,           \* Player._paused
    lastUpdateTime,   \* Player._lastUpdateTime
    lastPosition,     \* Player._lastPosition
    channel,          \* Player.channel
    sent,             \* payloads handed to Node._send by the last call
    err,              \* exception the last call raised, "none" if it returned
    ret,              \* value the last call returned
    last              \* the last call: its name, its Player, its arguments

nodeVars == <<players, websocket, pending>>
playerVars == <<connected, track, volume, filters, voiceState, paused,
                lastUpdateTime, lastPosition, channel>>
vars == <<players, websocket, pending, connected, track, volume, filters, voiceState,
          paused, lastUpdateTime, lastPosition, channel, sent, err, ret, last>>

\* ----------------------------------------------------------- Python values
PyBool(b) == [type |-> "bool", val |-> b]
PyDict(d) == [type |-> "dict", val |-> d]
\* truth value of a Python object: a bool is itself, a dict is true unless empty
PyStr(t) == [type |-> "str", val |-> t]
Truthy(v) ==
    IF v.type = "bool" THEN v.val
    ELSE IF v.type = "str" THEN v.val # ""
    ELSE DOMAIN v.val # {}

Min(a, b) == IF a <= b THEN a ELSE b
Max(a, b) == IF a >= b THEN a ELSE b
Range(s) == {s[i] : i \in 1..Len(s)}

\* list.remove(x): drops the first element equal to x
RECURSIVE Remove(_, _)
Remove(s, x) ==
    IF s = <<>> THEN <<>>
    ELSE IF Head(s) = x THEN Tail(s)
    ELSE <<Head(s)>> \o Remove(Tail(s), x)

\* str(guild.id)
guildId(p) == ToString(100 + p)

\* ------------------------------------------------------------------- Init
Init ==
    /\ players = <<>>
    /\ websocket = None
    /\ pending = <<>>
    /\ connected = [p \in Players |-> FALSE]
    /\ track = [p \in Players |-> None]
    /\ volume = [p \in Players |-> 100]
    /\ filters = [p \in Players |-> <<>>]
    /\ voiceState = [p \in Players |-> [sessionId |-> None, event |-> None]]
    /\ paused = [p \in Players |-> PyBool(FALSE)]
    /\ lastUpdateTime = [p \in Players |-> None]
    /\ lastPosition = [p \in Players |-> None]
    /\ channel = [p \in Players |-> "c1"]
    /\ sent = <<>>
    /\ err = "none"
    /\ ret = None
    /\ last = [op |-> "init", p |-> 0, arg |-> None]

\* ------------------------------------------------------------------- Node
\* Websocket(node): the session object Node.connect stores
Websocket == [listener |-> "running", connection |-> "open"]

\* Node._send: what the call leaves behind, given the websocket
\* (Player calls it as node.send)
sendErr(ws) ==
    IF ws = None THEN "AttributeError"
    ELSE IF ws[1].connection # "open" THEN "ConnectionError"
    ELSE "none"

\* mutant: a new session replaces the one the Node holds
Node_connectReplaces ==
    /\ websocket' = Some(Websocket)
    /\ err' = "none"
    /\ sent' = <<>>
    /\ ret' = None
    /\ last' = [op |-> "Node.connect", p |-> 0, arg |-> None]
    /\ UNCHANGED <<players, pending, playerVars>>

Node_connect ==
    /\ IF websocket = None
       THEN websocket' = Some(Websocket) /\ err' = "none"
       ELSE websocket' = websocket /\ err' = "WebsocketAlreadyExists"
    /\ sent' = <<>>
    /\ ret' = None
    /\ last' = [op |-> "Node.connect", p |-> 0, arg |-> None]
    /\ UNCHANGED <<players, pending, playerVars>>

\* Player.disconnect on the Node's list pl and the connected flags conn;
\* hostFails: guild.change_voice_state raises
disconnectStep(p, pl, conn, hostFails) ==
    IF hostFails THEN [players |-> pl, connected |-> conn, err |-> "HostError"]
    ELSE IF p \notin Range(pl)
         THEN [players |-> pl, connected |-> conn, err |-> "ValueError"]
    ELSE [players |-> Remove(pl, p),
          connected |-> [conn EXCEPT ![p] = FALSE],
          err |-> "none"]

\* for player in self.players: await player.disconnect(force=force)
\* i is the list iterator's index (0-based) into the live list
RECURSIVE disconnectLoop(_, _, _, _)
disconnectLoop(i, pl, conn, failing) ==
    IF i >= Len(pl) THEN [players |-> pl, connected |-> conn, err |-> "none"]
    ELSE LET r == disconnectStep(pl[i + 1], pl, conn, pl[i + 1] \in failing)
         IN  IF r.err # "none" THEN r
             ELSE disconnectLoop(i + 1, r.players, r.connected, failing)

Node_disconnect(failing) ==
    LET r == disconnectLoop(0, players, connected, failing)
    IN  /\ players' = r.players
        /\ connected' = r.connected
        /\ IF r.err # "none"
           THEN websocket' = websocket /\ err' = r.err
           ELSE IF websocket = None
           THEN websocket' = websocket /\ err' = "AttributeError"
           ELSE /\ websocket' = Some([listener |-> "cancelled",
                                      connection |-> "closed"])
                /\ err' = "none"
        /\ sent' = <<>>
        /\ ret' = None
        /\ last' = [op |-> "Node.disconnect", p |-> 0,
                    arg |-> [failing |-> failing, attached |-> players]]
        /\ UNCHANGED <<pending, track, volume, filters, voiceState, paused,
                       lastUpdateTime, lastPosition, channel>>

\* ------------------------------------------------- Player: connect/disconnect
connect(p, hostFails) ==
    /\ Len(players) < MaxAttached
    /\ IF hostFails
       THEN /\ err' = "HostError"
            /\ UNCHANGED <<players, connected>>
       ELSE /\ players' = Append(players, p)
            /\ connected' = [connected EXCEPT ![p] = TRUE]
            /\ err' = "none"
    /\ sent' = <<>>
    /\ ret' = None
    /\ last' = [op |-> "connect", p |-> p, arg |-> hostFails]
    /\ UNCHANGED <<websocket, pending, track, volume, filters, voiceState,
                   paused,
                   lastUpdateTime, lastPosition, channel>>

disconnect(p, hostFails) ==
    LET r == disconnectStep(p, players, connected, hostFails)
    IN  /\ players' = r.players
        /\ connected' = r.connected
        /\ err' = r.err
        /\ sent' = <<>>
        /\ ret' = None
        /\ last' = [op |-> "disconnect", p |-> p, arg |-> hostFails]
        /\ UNCHANGED <<websocket, pending, track, volume, filters, voiceState,
                       paused,
                       lastUpdateTime, lastPosition, channel>>

\* ------------------------------------------------------ Player: properties
isConnected(p) == connected[p]

\* mutant: a track counts as playing on a Player that is not connected
isPlayingIgnoresConnection(p) == track[p] # None

isPlaying(p) == isConnected(p) /\ track[p] # None
isPaused(p) == paused[p]

\* mutant: the extrapolated position is not clamped to the track's length
positionUnclamped(p, t) ==
    IF ~(connected[p] /\ track[p] # None) THEN [err |-> "none", val |-> 0]
    ELSE IF lastUpdateTime[p] = None \/ lastPosition[p] = None
    THEN [err |-> "TypeError", val |-> 0]
    ELSE IF Truthy(paused[p])
    THEN [err |-> "none", val |-> Min(lastPosition[p][1], track[p][1].length)]
    ELSE [err |-> "none",
          val |-> lastPosition[p][1] + (t - lastUpdateTime[p][1])]

\* Player.position read when the clock shows t (seconds)
position(p, t) ==
    IF ~isPlaying(p) THEN [err |-> "none", val |-> 0]
    ELSE IF Truthy(isPaused(p))
    THEN IF lastPosition[p] = None THEN [err |-> "TypeError", val |-> 0]
         ELSE [err |-> "none",
               val |-> Min(lastPosition[p][1], track[p][1].length)]
    ELSE IF lastUpdateTime[p] = None \/ lastPosition[p] = None
         THEN [err |-> "TypeError", val |-> 0]
         ELSE [err |-> "none",
               val |-> Min(lastPosition[p][1] + (t - lastUpdateTime[p][1]),
                           track[p][1].length)]

readPosition(p, t) ==
    LET r == position(p, t)
    IN  /\ err' = r.err
        /\ ret' = IF r.err = "none" THEN Some(r.val) ELSE None
        /\ sent' = <<>>
        /\ last' = [op |-> "position", p |-> p, arg |-> t]
        /\ UNCHANGED <<nodeVars, playerVars>>

\* mutant: the handler is cut between its two assignments
updateStateTimeOnly(p, time, pos) ==
    /\ lastUpdateTime' = [lastUpdateTime EXCEPT ![p] = Some(time \div 1000)]
    /\ sent' = <<>>
    /\ err' = "none"
    /\ ret' = None
    /\ last' = [op |-> "_updateState", p |-> p, arg |-> <<time, pos>>]
    /\ UNCHANGED <<nodeVars, connected, track, volume, filters, voiceState,
                   paused, lastPosition, channel>>

\* mutant: a message without position keeps the position of an earlier one
updateStateKeepsPosition(p, time, pos) ==
    /\ lastUpdateTime' = [lastUpdateTime EXCEPT ![p] = Some(time \div 1000)]
    /\ lastPosition' = [lastPosition EXCEPT
                          ![p] = IF pos = None /\ lastPosition[p] # None
                                 THEN lastPosition[p]
                                 ELSE Some((IF pos = None THEN 0 ELSE pos[1]) \div 1000)]
    /\ sent' = <<>>
    /\ err' = "none"
    /\ ret' = None
    /\ last' = [op |-> "_updateState", p |-> p, arg |-> <<time, pos>>]
    /\ UNCHANGED <<nodeVars, connected, track, volume, filters, voiceState,
                   paused, channel>>

\* Player._updateState: time and position in milliseconds, position optional
updateState(p, time, pos) ==
    /\ lastUpdateTime' = [lastUpdateTime EXCEPT ![p] = Some(time \div 1000)]
    /\ lastPosition' = [lastPosition EXCEPT
                          ![p] = Some((IF pos = None THEN 0 ELSE pos[1]) \div 1000)]
    /\ sent' = <<>>
    /\ err' = "none"
    /\ ret' = None
    /\ last' = [op |-> "_updateState", p |-> p, arg |-> <<time, pos>>]
    /\ UNCHANGED <<nodeVars, connected, track, volume, filters, voiceState,
                   paused, channel>>

\* -------------------------------------------------------- Player: commands
\* mutant: endTime is put into the frame whatever its value
playFrameAlwaysEndTime(p, tr, startTime, endTime, vol, replace, pause) ==
    [op |-> "play", guildId |-> guildId(p), track |-> tr.id,
     startTime |-> ToString(startTime), volume |-> ToString(vol),
     noReplace |-> ~replace, pause |-> pause,
     endTime |-> ToString(endTime)]

playFrame(p, tr, startTime, endTime, vol, replace, pause) ==
    IF endTime > 0
    THEN [op |-> "play", guildId |-> guildId(p), track |-> tr.id,
          startTime |-> ToString(startTime), volume |-> ToString(vol),
          noReplace |-> ~replace, pause |-> pause,
          endTime |-> ToString(endTime)]
    ELSE [op |-> "play", guildId |-> guildId(p), track |-> tr.id,
          startTime |-> ToString(startTime), volume |-> ToString(vol),
          noReplace |-> ~replace, pause |-> pause]

\* the volume Player.play stores
playVolume(vol) == vol

play(p, tr, startTime, endTime, vol, replace, pause) ==
    /\ IF isPlaying(p) /\ ~replace
       THEN /\ sent' = <<>>
            /\ err' = "none"
            /\ UNCHANGED <<track, volume>>
       ELSE /\ track' = [track EXCEPT ![p] = Some(tr)]
            /\ volume' = [volume EXCEPT ![p] = playVolume(vol)]
            /\ sent' = <<playFrame(p, tr, startTime, endTime, vol, replace, pause)>>
            /\ err' = sendErr(websocket)
    /\ ret' = None
    /\ last' = [op |-> "play", p |-> p,
                arg |-> [startTime |-> startTime, endTime |-> endTime,
                         replace |-> replace]]
    /\ UNCHANGED <<nodeVars, connected, filters, voiceState, paused,
                   lastUpdateTime, lastPosition, channel>>

stop(p) ==
    /\ track' = [track EXCEPT ![p] = None]
    /\ sent' = <<[op |-> "stop", guildId |-> guildId(p)]>>
    /\ err' = IF sendErr(websocket) # "none" THEN sendErr(websocket)
              ELSE IF track[p] = None THEN "AttributeError"
              ELSE "none"
    /\ ret' = None
    /\ last' = [op |-> "stop", p |-> p, arg |-> None]
    /\ UNCHANGED <<nodeVars, connected, volume, filters, voiceState, paused,
                   lastUpdateTime, lastPosition, channel>>

\* the value Player._togglePause stores in _paused: the local name `pause`
\* is rebound to the payload before the assignment
pausedValue(frame, pause) == PyDict(frame)

togglePause(p, pause, name) ==
    LET frame == [op |-> "pause", guildId |-> guildId(p), pause |-> pause]
    IN  /\ paused' = [paused EXCEPT ![p] = pausedValue(frame, pause)]
        /\ sent' = <<frame>>
        /\ err' = sendErr(websocket)
        /\ ret' = None
        /\ last' = [op |-> name, p |-> p, arg |-> None]
        /\ UNCHANGED <<nodeVars, connected, track, volume, filters, voiceState,
                       lastUpdateTime, lastPosition, channel>>

pause(p) == togglePause(p, TRUE, "pause")
resume(p) == togglePause(p, FALSE, "resume")

\* mutant: the boundary position is rejected too
seekRejectsAtLength(pos, length) == pos >= length

\* the guard of Player.seek
seekRejects(pos, length) == pos > length

seek(p, pos) ==
    /\ IF track[p] = None
       THEN sent' = <<>> /\ err' = "AttributeError"
       ELSE IF seekRejects(pos, track[p][1].length)
       THEN sent' = <<>> /\ err' = "InvalidIdentifier"
       ELSE /\ sent' = <<[op |-> "seek", guildId |-> guildId(p), position |-> pos]>>
            /\ err' = sendErr(websocket)
    /\ ret' = None
    /\ last' = [op |-> "seek", p |-> p, arg |-> pos]
    /\ UNCHANGED <<nodeVars, playerVars>>

\* mutant: the lower clamp is missing
clampVolumeNoFloor(v) == Min(v, 1000)

\* max(min(volume, 1000), 0)
clampVolume(v) == Max(Min(v, 1000), 0)

setVolume(p, v) ==
    /\ volume' = [volume EXCEPT ![p] = clampVolume(v)]
    /\ sent' = <<[op |-> "volume", guildId |-> guildId(p), volume |-> volume'[p]]>>
    /\ err' = sendErr(websocket)
    /\ ret' = None
    /\ last' = [op |-> "setVolume", p |-> p, arg |-> v]
    /\ UNCHANGED <<nodeVars, connected, track, filters, voiceState, paused,
                   lastUpdateTime, lastPosition, channel>>

\* ------------------------------------- Player: commands, up to their await
\* A command runs without interruption up to `await self.node.send(frame)`:
\* there it is suspended, and the dispatch loop, property reads and other
\* commands run until the send returns or raises.
\* tempTrack is the local of stop, read again after the await.
suspend(p, frame, tempTrack) ==
    /\ Len(pending) < MaxPending
    /\ pending' = Append(pending, [p |-> p, frame |-> frame,
                                   tempTrack |-> tempTrack])
    /\ sent' = <<frame>>
    /\ err' = "none"
    /\ ret' = None
    /\ UNCHANGED <<players, websocket>>

playAwait(p, tr, startTime, endTime, vol, replace, ps) ==
    /\ ~(isPlaying(p) /\ ~replace)
    /\ track' = [track EXCEPT ![p] = Some(tr)]
    /\ volume' = [volume EXCEPT ![p] = playVolume(vol)]
    /\ suspend(p, playFrame(p, tr, startTime, endTime, vol, replace, ps), None)
    /\ last' = [op |-> "play", p |-> p,
                arg |-> [startTime |-> startTime, endTime |-> endTime,
                         replace |-> replace]]
    /\ UNCHANGED <<connected, filters, voiceState, paused, lastUpdateTime,
                   lastPosition, channel>>

stopAwait(p) ==
    /\ track' = [track EXCEPT ![p] = None]
    /\ suspend(p, [op |-> "stop", guildId |-> guildId(p)], track[p])
    /\ last' = [op |-> "stop", p |-> p, arg |-> None]
    /\ UNCHANGED <<connected, volume, filters, voiceState, paused,
                   lastUpdateTime, lastPosition, channel>>

togglePauseAwait(p, ps, name) ==
    LET frame == [op |-> "pause", guildId |-> guildId(p), pause |-> ps]
    IN  /\ paused' = [paused EXCEPT ![p] = pausedValue(frame, ps)]
        /\ suspend(p, frame, None)
        /\ last' = [op |-> name, p |-> p, arg |-> None]
        /\ UNCHANGED <<connected, track, volume, filters, voiceState,
                       lastUpdateTime, lastPosition, channel>>

pauseAwait(p) == togglePauseAwait(p, TRUE, "pause")
resumeAwait(p) == togglePauseAwait(p, FALSE, "resume")

seekAwait(p, pos) ==
    /\ track[p] # None
    /\ ~seekRejects(pos, track[p][1].length)
    /\ suspend(p, [op |-> "seek", guildId |-> guildId(p), position |-> pos], None)
    /\ last' = [op |-> "seek", p |-> p, arg |-> pos]
    /\ UNCHANGED playerVars

setVolumeAwait(p, v) ==
    /\ volume' = [volume EXCEPT ![p] = clampVolume(v)]
    /\ suspend(p, [op |-> "volume", guildId |-> guildId(p),
                   volume |-> volume'[p]], None)
    /\ last' = [op |-> "setVolume", p |-> p, arg |-> v]
    /\ UNCHANGED <<connected, track, filters, voiceState, paused,
                   lastUpdateTime, lastPosition, channel>>

\* the send of the i-th suspended command returns, or raises if fails; the
\* command then runs its last line, the log: play reads self.track.title,
\* stop reads tempTrack.title
sendReturns(i, fails) ==
    LET e == pending[i]
    IN  /\ pending' = SubSeq(pending, 1, i - 1) \o SubSeq(pending, i + 1, Len(pending))
        /\ err' = IF fails THEN "ConnectionError"
                  ELSE IF e.frame.op = "play" /\ track[e.p] = None
                  THEN "AttributeError"
                  ELSE IF e.frame.op = "stop" /\ e.tempTrack = None
                  THEN "AttributeError"
                  ELSE "none"
        /\ sent' = <<>>
        /\ ret' = None
        /\ last' = [op |-> "send returns", p |-> e.p,
                    arg |-> [frame |-> e.frame, fails |-> fails]]
        /\ UNCHANGED <<players, websocket, playerVars>>

\* --------------------------------------------------------- Player: filters
\* Player._filters is a dict: a list of entries in insertion order
keys(d) == {d[i].name : i \in 1..Len(d)}

\* d[name] = f
dictSet(d, name, f) ==
    IF name \in keys(d)
    THEN [i \in 1..Len(d) |-> IF d[i].name = name THEN f ELSE d[i]]
    ELSE Append(d, f)

\* mutant: every entry up to and including the named one is dropped
dictDelUpTo(d, name) ==
    LET k == CHOOSE i \in 1..Len(d) : d[i].name = name
    IN  SubSeq(d, k + 1, Len(d))

\* del d[name]
dictDel(d, name) == SelectSeq(d, LAMBDA e : e.name # name)

\* Player._updateFilters: the payload built from the filters d and volume v;
\* volume/100 is kept as the fraction it is
filterPayload(p, d, v) ==
    [op |-> "filters", guildId |-> guildId(p),
     volume |-> [num |-> v, den |-> 100],
     entries |-> {<<d[i].name, d[i].payload>> : i \in 1..Len(d)}]

\* mutant: the duplicate check is missing
addRejectsNever(d, name) == FALSE

\* the guard of Player.addFilter
addRejects(d, name) == name \in keys(d)

addFilter(p, f) ==
    /\ IF addRejects(filters[p], f.name)
       THEN /\ sent' = <<>>
            /\ err' = "FilterAlreadyExists"
            /\ UNCHANGED filters
       ELSE /\ filters' = [filters EXCEPT ![p] = dictSet(filters[p], f.name, f)]
            /\ sent' = <<filterPayload(p, filters'[p], volume[p])>>
            /\ err' = sendErr(websocket)
    /\ ret' = None
    /\ last' = [op |-> "addFilter", p |-> p, arg |-> f]
    /\ UNCHANGED <<nodeVars, connected, track, volume, voiceState, paused,
                   lastUpdateTime, lastPosition, channel>>

\* the guard of Player.removeFilter
removeRejects(d, name) == name \notin keys(d)

removeFilter(p, f) ==
    /\ IF removeRejects(filters[p], f.name)
       THEN /\ sent' = <<>>
            /\ err' = "FilterNotApplied"
            /\ UNCHANGED filters
       ELSE /\ filters' = [filters EXCEPT ![p] = dictDel(filters[p], f.name)]
            /\ sent' = <<filterPayload(p, filters'[p], volume[p])>>
            /\ err' = sendErr(websocket)
    /\ ret' = None
    /\ last' = [op |-> "removeFilter", p |-> p, arg |-> f]
    /\ UNCHANGED <<nodeVars, connected, track, volume, voiceState, paused,
                   lastUpdateTime, lastPosition, channel>>

\* ------------------------------------------------- Player: voice handshake
\* mutant: the frame goes out as soon as the event slot is filled
sendVoiceUpdateOnEvent(p, vs) ==
    IF vs.event # None
    THEN <<[op |-> "voiceUpdate", guildId |-> guildId(p),
            sessionId |-> IF vs.sessionId = None THEN "" ELSE vs.sessionId[1],
            event |-> vs.event[1]]>>
    ELSE <<>>

\* {"sessionId", "event"} == self._voiceState.keys()
bothKeys(vs) == vs.sessionId # None /\ vs.event # None

\* Player._sendVoiceUpdate: the payloads it hands over, given the buffer
sendVoiceUpdate(p, vs) ==
    IF bothKeys(vs)
    THEN <<[op |-> "voiceUpdate", guildId |-> guildId(p),
            sessionId |-> vs.sessionId[1], event |-> vs.event[1]]>>
    ELSE <<>>

on_voice_server_update(p, data) ==
    LET vs == [voiceState[p] EXCEPT !.event = Some(data)]
    IN  /\ voiceState' = [voiceState EXCEPT ![p] = vs]
        /\ sent' = sendVoiceUpdate(p, vs)
        /\ err' = IF sent' = <<>> THEN "none" ELSE sendErr(websocket)
        /\ ret' = None
        /\ last' = [op |-> "on_voice_server_update", p |-> p, arg |-> data]
        /\ UNCHANGED <<nodeVars, connected, track, volume, filters, paused,
                       lastUpdateTime, lastPosition, channel>>

\* mutant: a null channel returns without clearing the buffer
on_voice_state_updateKeepsBuffer(p, sessionId, channelID) ==
    LET vs == [voiceState[p] EXCEPT !.sessionId = Some(sessionId)]
    IN  /\ voiceState' = [voiceState EXCEPT ![p] = vs]
        /\ IF channelID = None
           THEN sent' = <<>> /\ err' = "none" /\ UNCHANGED channel
           ELSE /\ channel' = [channel EXCEPT ![p] = channelID[1]]
                /\ sent' = IF vs.sessionId # None /\ vs.event # None
                           THEN <<[op |-> "voiceUpdate", guildId |-> guildId(p),
                                   sessionId |-> vs.sessionId[1],
                                   event |-> vs.event[1]]>>
                           ELSE <<>>
                /\ err' = IF sent' = <<>> THEN "none" ELSE sendErr(websocket)
        /\ ret' = None
        /\ last' = [op |-> "on_voice_state_update", p |-> p,
                    arg |-> <<sessionId, channelID>>]
        /\ UNCHANGED <<nodeVars, connected, track, volume, filters, paused,
                       lastUpdateTime, lastPosition>>

\* channelID: None, or the id of the channel the client is now in
on_voice_state_update(p, sessionId, channelID) ==
    LET vs == [voiceState[p] EXCEPT !.sessionId = Some(sessionId)]
    IN  /\ IF channelID = None
           THEN /\ voiceState' = [voiceState EXCEPT
                                    ![p] = [sessionId |-> None, event |-> None]]
                /\ sent' = <<>>
                /\ err' = "none"
                /\ UNCHANGED channel
           ELSE /\ voiceState' = [voiceState EXCEPT ![p] = vs]
                /\ channel' = [channel EXCEPT ![p] = channelID[1]]
                /\ sent' = sendVoiceUpdate(p, vs)
                /\ err' = IF sent' = <<>> THEN "none" ELSE sendErr(websocket)
        /\ ret' = None
        /\ last' = [op |-> "on_voice_state_update", p |-> p,
                    arg |-> <<sessionId, channelID>>]
        /\ UNCHANGED <<nodeVars, connected, track, volume, filters, paused,
                       lastUpdateTime, lastPosition>>

\* -------------------------------------------------------- Node: getTracks
\* the entries of data["tracks"], the load types and the HTTP statuses
TrackEntries == {[track |-> "QAAA", info |-> "first"],
                 [track |-> "QBBB", info |-> "second"]}
LoadTypes == {"LOAD_FAILED", "NO_MATCHES", "TRACK_LOADED", "SEARCH_RESULT",
              "PLAYLIST_LOADED", "UNKNOWN"}
Statuses == {200, 404, 500}
PlaylistNames == {"mix"}

RECURSIVE SeqsUpTo(_, _)
SeqsUpTo(S, n) ==
    IF n = 0 THEN {<<>>}
    ELSE LET shorter == SeqsUpTo(S, n - 1)
         IN  shorter \cup {Append(q, x) : q \in shorter, x \in S}

\* the bodies _getData returns: playlistInfo holds a name for a playlist only
Responses ==
    [loadType : LoadTypes \ {"PLAYLIST_LOADED"},
     tracks : SeqsUpTo(TrackEntries, MaxTracks),
     playlistInfo : {None}]
    \cup
    [loadType : {"PLAYLIST_LOADED"},
     tracks : SeqsUpTo(TrackEntries, MaxTracks),
     playlistInfo : {Some(n) : n \in PlaylistNames}]

\* cls(trackInfo["track"], trackInfo["info"])
cls(id, info) == [id |-> id, info |-> info]

\* mutant: the tracks come out in reverse order
buildTracksReversed(entries) ==
    [i \in 1..Len(entries) |->
        cls(entries[Len(entries) + 1 - i].track, entries[Len(entries) + 1 - i].info)]

\* [cls(element["track"], element["info"]) for element in data["tracks"]]
buildTracks(entries) ==
    [i \in 1..Len(entries) |-> cls(entries[i].track, entries[i].info)]

\* Node.getTracks on the status and body _getData returned
getTracksResult(status, data) ==
    IF status # 200 THEN [err |-> "LavalinkException", val |-> None]
    ELSE IF data.loadType = "LOAD_FAILED"
    THEN [err |-> "LoadTrackError", val |-> None]
    ELSE IF data.loadType = "NO_MATCHES"
    THEN [err |-> "none", val |-> None]
    ELSE IF data.loadType = "TRACK_LOADED"
    THEN IF data.tracks = <<>>
         THEN [err |-> "IndexError", val |-> None]
         ELSE [err |-> "none",
               val |-> Some(cls(data.tracks[1].track, data.tracks[1].info))]
    ELSE IF data.loadType = "SEARCH_RESULT"
    THEN [err |-> "none", val |-> Some(buildTracks(data.tracks))]
    ELSE IF data.loadType = "PLAYLIST_LOADED"
    THEN [err |-> "none",
          val |-> Some([name |-> data.playlistInfo[1],
                        tracks |-> buildTracks(data.tracks)])]
    ELSE [err |-> "none", val |-> None]

getTracks(status, data) ==
    LET r == getTracksResult(status, data)
    IN  /\ err' = r.err
        /\ ret' = r.val
        /\ sent' = <<>>
        /\ last' = [op |-> "getTracks", p |-> 0,
                    arg |-> [status |-> status, data |-> data]]
        /\ UNCHANGED <<nodeVars, playerVars>>

\* ------------------------------------------------------------------ events
\* the raw event data: each key is absent (None) or carries its value
ErrorValues == {PyStr(""), PyStr("boom")}
ExceptionValues == {PyDict([message |-> "boom", severity |-> "COMMON"])}
EventData ==
    [error : {None} \cup {Some(v) : v \in ErrorValues},
     exception : {None} \cup {Some(v) : v \in ExceptionValues}]

\* data.get("error") as a condition: an absent key gives None, which is falsy
getTruthy(data, key) == data[key] # None /\ Truthy(data[key][1])

\* if data.get("error")
errorBranch(data) == getTruthy(data, "error")

\* TrackExceptionEvent.__init__: data[key] of an absent key raises KeyError
TrackExceptionEventResult(p, tr, data) ==
    LET key == IF errorBranch(data) THEN "error" ELSE "exception"
    IN  IF data[key] = None
        THEN [err |-> "KeyError", val |-> None]
        ELSE [err |-> "none",
              val |-> Some([event |-> "track_exception",
                            payload |-> [player |-> p, track |-> tr,
                                         exception |-> data[key][1]]])]

TrackExceptionEvent(p, tr, data) ==
    LET r == TrackExceptionEventResult(p, tr, data)
    IN  /\ err' = r.err
        /\ ret' = r.val
        /\ sent' = <<>>
        /\ last' = [op |-> "TrackExceptionEvent", p |-> p,
                    arg |-> [track |-> tr, data |-> data]]
        /\ UNCHANGED <<nodeVars, playerVars>>

\* ---------------------------------------------------------- specifications
\* the Player the playback, filter and voice commands are issued to
Subject == CHOOSE p \in Players : \A q \in Players : p <= q

ConnectSubject ==
    \/ \E h \in BOOLEAN : connect(Subject, h)
    \/ \E h \in BOOLEAN : disconnect(Subject, h)

\* playback: one Player driven by its commands, state updates and reads
\* (play at the default volume and without endTime; SpecFilters varies both)
Next ==
    \/ Node_connect
    \/ ConnectSubject
    \/ \E tr \in Tracks, st \in StartTimes, replace \in BOOLEAN, ps \in BOOLEAN :
            play(Subject, tr, st, 0, 100, replace, ps)
    \/ stop(Subject)
    \/ pause(Subject)
    \/ resume(Subject)
    \/ \E pos \in SeekPositions : seek(Subject, pos)
    \/ \E time \in StateTimes, pos \in {None} \cup {Some(q) : q \in StatePositions} :
            updateState(Subject, time, pos)
    \/ \E t \in Times : readPosition(Subject, t)

Spec == Init /\ [][Next]_vars

\* the Node with all its Players attaching and detaching
NextNode ==
    \/ Node_connect
    \/ \E failing \in SUBSET Players : Node_disconnect(failing)
    \/ \E p \in Players, h \in BOOLEAN : connect(p, h)
    \/ \E p \in Players, h \in BOOLEAN : disconnect(p, h)

SpecNode == Init /\ [][NextNode]_vars

\* the voice handshake of one Player
NextVoice ==
    \/ Node_connect
    \/ ConnectSubject
    \/ \E e \in VoiceEvents : on_voice_server_update(Subject, e)
    \/ \E sid \in SessionIds, ch \in {None} \cup {Some(c) : c \in Channels} :
            on_voice_state_update(Subject, sid, ch)

SpecVoice == Init /\ [][NextVoice]_vars

\* the filters of one Player, with the commands that change its volume
\* (the Player stays unattached: none of these commands looks at the Node's list)
NextFilters ==
    \/ Node_connect
    \/ \E f \in Filters : addFilter(Subject, f)
    \/ \E f \in Filters : removeFilter(Subject, f)
    \/ \E v \in SetVolumes : setVolume(Subject, v)
    \/ \E tr \in Tracks, st \in StartTimes, et \in EndTimes, v \in PlayVolumes,
          replace \in BOOLEAN, ps \in BOOLEAN :
            play(Subject, tr, st, et, v, replace, ps)

SpecFilters == Init /\ [][NextFilters]_vars

\* data: the REST lookups and the events built from inbound event data
NextData ==
    \/ \E status \in Statuses, data \in Responses : getTracks(status, data)
    \/ \E p \in Players, tr \in Tracks, data \in EventData :
            TrackExceptionEvent(p, tr, data)

SpecData == Init /\ [][NextData]_vars

\* the playerUpdate messages of one server: the time is the server's clock,
\* so each message has its own, and the first one omits the position
PlayerUpdates ==
    {[time |-> 1000 * t,
      position |-> IF t = 0 THEN None ELSE Some(1000 * Min(t, MaxPos))] :
        t \in Times}

\* the Node connected and the Player attached to it by connect
InitAsync ==
    /\ players = <<Subject>>
    /\ websocket = Some(Websocket)
    /\ pending = <<>>
    /\ connected = [p \in Players |-> p = Subject]
    /\ track = [p \in Players |-> None]
    /\ volume = [p \in Players |-> 100]
    /\ filters = [p \in Players |-> <<>>]
    /\ voiceState = [p \in Players |-> [sessionId |-> None, event |-> None]]
    /\ paused = [p \in Players |-> PyBool(FALSE)]
    /\ lastUpdateTime = [p \in Players |-> None]
    /\ lastPosition = [p \in Players |-> None]
    /\ channel = [p \in Players |-> "c1"]
    /\ sent = <<>>
    /\ err = "none"
    /\ ret = None
    /\ last = [op |-> "connect", p |-> Subject, arg |-> FALSE]

\* one Player's commands suspended in their send, interleaved with the
\* dispatch loop's playerUpdate handling and with position reads
NextAsync ==
    \/ \E tr \in Tracks, replace \in BOOLEAN :
            playAwait(Subject, tr, 0, 0, 100, replace, FALSE)
    \/ stopAwait(Subject)
    \/ pauseAwait(Subject)
    \/ resumeAwait(Subject)
    \/ \E pos \in {1} : seekAwait(Subject, pos)
    \/ \E v \in {5000} : setVolumeAwait(Subject, v)
    \/ \E i \in 1..Len(pending), fails \in BOOLEAN : sendReturns(i, fails)
    \/ \E m \in PlayerUpdates : updateState(Subject, m.time, m.position)
    \/ \E t \in Times : readPosition(Subject, t)

SpecAsync == InitAsync /\ [][NextAsync]_vars

\* ----------------------------------------------------------------- claims
\* C1: when Node.disconnect returns, called with any number of Players
\* attached (each once), the Node's player list is empty and every Player that
\* was attached when it was called has isConnected = false.
C1_NodeDisconnectDetachesAll ==
    (/\ last.op = "Node.disconnect"
     /\ err = "none"
     /\ \A i, j \in 1..Len(last.arg.attached) :
           last.arg.attached[i] = last.arg.attached[j] => i = j) =>
        /\ players = <<>>
        /\ \A q \in Range(last.arg.attached) : ~isConnected(q)

\* C2: when the disconnect of an attached Player fails inside Node.disconnect,
\* every other attached Player is still disconnected, the listener is still
\* cancelled and the connection still closed.
C2_NodeDisconnectBestEffort ==
    (/\ last.op = "Node.disconnect"
     /\ websocket # None
     /\ last.arg.failing \cap Range(last.arg.attached) # {}) =>
        /\ \A q \in Range(last.arg.attached) \ last.arg.failing :
              ~isConnected(q) /\ q \notin Range(players)
        /\ websocket[1].listener = "cancelled"
        /\ websocket[1].connection = "closed"

\* C3: once pause() has been issued isPaused is true, and once resume() has
\* been issued isPaused is false, whatever became of the send.
C3_PauseFlagFollowsCommand ==
    /\ last.op = "pause" => Truthy(isPaused(last.p))
    /\ last.op = "resume" => ~Truthy(isPaused(last.p))

\* C4: a voice-server or voice-state update sends exactly one voiceUpdate frame,
\* carrying the buffered pair, when it leaves both slots of the buffer filled,
\* and sends no frame when only one of the two slots is filled.
C4_OneVoiceUpdatePerPair ==
    last.op \in {"on_voice_server_update", "on_voice_state_update"} =>
        LET vs == voiceState[last.p]
        IN  IF vs.sessionId # None /\ vs.event # None
            THEN sent = <<[op |-> "voiceUpdate", guildId |-> guildId(last.p),
                           sessionId |-> vs.sessionId[1], event |-> vs.event[1]]>>
            ELSE sent = <<>>

C4_Witness ==
    /\ last.op = "on_voice_server_update"
    /\ Len(sent) = 1
    /\ sent[1].op = "voiceUpdate"
    /\ sent[1].event = last.arg

\* C5: in every reachable state the stored volume of a Player is in [0, 1000].
C5_VolumeInRange == \A p \in Players : volume[p] \in 0..1000

\* C6: setVolume(v) stores max(0, min(v, 1000)) and sends exactly one volume
\* frame carrying the stored value; setVolume(-5) stores 0, setVolume(5000)
\* stores 1000.
C6_SetVolumeClamps ==
    last.op = "setVolume" =>
        LET v == last.arg
            c == IF v < 0 THEN 0 ELSE IF v > 1000 THEN 1000 ELSE v
        IN  /\ volume[last.p] = c
            /\ sent = <<[op |-> "volume", guildId |-> guildId(last.p), volume |-> c]>>
            /\ v = -5 => volume[last.p] = 0
            /\ v = 5000 => volume[last.p] = 1000

C6_Witness ==
    /\ last.op = "setVolume"
    /\ last.arg = -5
    /\ volume[last.p] = 0
    /\ Len(sent) = 1

\* C7: with a track set, seek(position) with position > track.length raises the
\* invalid-position error, sends nothing and changes no state; with
\* position <= track.length it sends exactly one seek frame with that position.
C7_SeekChecksPosition ==
    [][(last'.op = "seek" /\ track[last'.p] # None) =>
         IF last'.arg > track[last'.p][1].length
         THEN /\ err' = "InvalidIdentifier"
              /\ sent' = <<>>
              /\ UNCHANGED <<nodeVars, playerVars>>
         ELSE sent' = <<[op |-> "seek", guildId |-> guildId(last'.p),
                         position |-> last'.arg]>>]_vars

C7_Witness ==
    /\ last.op = "seek"
    /\ track[last.p] # None
    /\ last.arg = track[last.p][1].length + 1
    /\ err = "InvalidIdentifier"
    /\ sent = <<>>

UniqueNames(d) == \A i, j \in 1..Len(d) : d[i].name = d[j].name => i = j

\* C9: addFilter(f) when a filter of f's name is in the map raises the
\* filter-already-exists error, sends nothing and leaves the map unchanged; the
\* map never holds two filters of one name.
C9_AddFilterRejectsDuplicate ==
    [][/\ (last'.op = "addFilter"
           /\ \E i \in 1..Len(filters[last'.p]) :
                 filters[last'.p][i].name = last'.arg.name) =>
            /\ err' = "FilterAlreadyExists"
            /\ sent' = <<>>
            /\ filters' = filters
       /\ \A p \in Players : UniqueNames(filters'[p])]_vars

C9_Witness ==
    /\ last.op = "addFilter"
    /\ err = "FilterAlreadyExists"
    /\ sent = <<>>
    /\ \E i \in 1..Len(filters[last.p]) :
          /\ filters[last.p][i].name = last.arg.name
          /\ filters[last.p][i] # last.arg

\* C10: removeFilter(f) when no filter of f's name is in the map raises the
\* filter-not-applied error, sends nothing and leaves the map unchanged; when
\* the name is in the map it removes exactly that entry and sends exactly one
\* filters frame.
C10_RemoveFilter ==
    [][last'.op = "removeFilter" =>
         LET old == filters[last'.p]
             new == filters'[last'.p]
             name == last'.arg.name
         IN  IF \A i \in 1..Len(old) : old[i].name # name
             THEN /\ err' = "FilterNotApplied"
                  /\ sent' = <<>>
                  /\ filters' = filters
             ELSE /\ Len(new) = Len(old) - 1
                  /\ \A i \in 1..Len(new) : new[i].name # name
                  /\ \A i \in 1..Len(old) :
                        old[i].name # name => \E j \in 1..Len(new) : new[j] = old[i]
                  /\ Len(sent') = 1
                  /\ sent'[1].op = "filters"]_vars

C10_Witness ==
    /\ last.op = "removeFilter"
    /\ Len(sent) = 1
    /\ sent[1].op = "filters"
    /\ Len(filters[last.p]) = 1
    /\ filters[last.p][1].name # last.arg.name

\* C11: the filters frame sent by a successful addFilter or removeFilter holds
\* one entry for every filter in the Player's filter map and no other entry,
\* with a volume field equal to the current volume divided by 100, which lies
\* between 0 and 10.
C11_FiltersFrameIsFullSet ==
    (last.op \in {"addFilter", "removeFilter"} /\ sent # <<>>) =>
        LET f == sent[1]
            d == filters[last.p]
        IN  /\ Len(sent) = 1
            /\ f.op = "filters"
            /\ \A i \in 1..Len(d) : <<d[i].name, d[i].payload>> \in f.entries
            /\ \A e \in f.entries : \E i \in 1..Len(d) : e = <<d[i].name, d[i].payload>>
            /\ f.volume.num * 100 = volume[last.p] * f.volume.den
            /\ f.volume.den > 0
            /\ 0 <= f.volume.num
            /\ f.volume.num <= 10 * f.volume.den

\* C12: play with replace = false on a Player that is connected and has a
\* current track sends nothing, raises nothing and leaves track, volume, paused
\* flag and position snapshot unchanged; every other play sends exactly one
\* play frame.
C12_PlayNoReplaceIsNoOp ==
    [][last'.op = "play" =>
         IF connected[last'.p] /\ track[last'.p] # None /\ ~last'.arg.replace
         THEN /\ sent' = <<>>
              /\ err' = "none"
              /\ UNCHANGED <<track, volume, paused, lastUpdateTime, lastPosition>>
         ELSE /\ Len(sent') = 1
              /\ sent'[1].op = "play"]_vars

C12_Witness ==
    /\ last.op = "play"
    /\ ~last.arg.replace
    /\ connected[last.p]
    /\ track[last.p] # None
    /\ lastPosition[last.p] # None
    /\ sent = <<>>
    /\ err = "none"

\* the decimal numeral of a natural number
Digit(d) == <<"0", "1", "2", "3", "4", "5", "6", "7", "8", "9">>[d + 1]
RECURSIVE Decimal(_)
Decimal(n) == IF n < 10 THEN Digit(n) ELSE Decimal(n \div 10) \o Digit(n % 10)

\* C13: every play frame carries startTime; it carries endTime exactly when the
\* endTime argument is > 0, and then as the decimal string of the argument
\* (endTime = 0 omits the field, endTime = 30000 gives "30000").
C13_PlayFrameEndTime ==
    (last.op = "play" /\ sent # <<>>) =>
        LET f == sent[1]
        IN  /\ "startTime" \in DOMAIN f
            /\ f.startTime = Decimal(last.arg.startTime)
            /\ ("endTime" \in DOMAIN f) <=> (last.arg.endTime > 0)
            /\ last.arg.endTime > 0 => f.endTime = Decimal(last.arg.endTime)
            /\ last.arg.endTime = 30000 => f.endTime = "30000"

C13_Witness ==
    /\ last.op = "play"
    /\ last.arg.endTime = 30000
    /\ Len(sent) = 1
    /\ sent[1].op = "play"
    /\ sent[1].endTime = "30000"

\* C14: stop on a Node whose connection is open sends one stop frame, completes
\* without an error and leaves the track unset, whether or not a track was set.
C14_StopIsHarmless ==
    (last.op = "stop" /\ sendErr(websocket) = "none") =>
        /\ sent = <<[op |-> "stop", guildId |-> guildId(last.p)]>>
        /\ track[last.p] = None
        /\ err = "none"

\* C15: Node.connect issued while the Node holds a session raises
\* WebsocketAlreadyExists and leaves that session in place, unchanged.
C15_ConnectRejectsSecondSession ==
    [][(last'.op = "Node.connect" /\ websocket # None) =>
         /\ err' = "WebsocketAlreadyExists"
         /\ websocket' = websocket]_vars

C15_Witness ==
    /\ last.op = "Node.connect"
    /\ err = "WebsocketAlreadyExists"
    /\ websocket = Some([listener |-> "running", connection |-> "open"])

\* C16: once Node.disconnect has returned the Node holds no session, and a
\* Node.connect issued next creates a new session without an error.
C16_ConnectAfterDisconnect ==
    [][(last.op = "Node.disconnect" /\ err = "none" /\ last'.op = "Node.connect") =>
         /\ websocket = None
         /\ err' = "none"
         /\ websocket' = Some(Websocket)]_vars

\* C17: when Player.disconnect has returned, the voice-handshake buffer holds
\* neither sessionId nor event.
C17_DisconnectClearsBuffer ==
    (last.op = "disconnect" /\ err = "none") =>
        /\ voiceState[last.p].sessionId = None
        /\ voiceState[last.p].event = None

\* C18: a voice-state update with a null channel leaves both slots of the
\* handshake buffer empty (the sessionId it carried included), sends no frame
\* and leaves the Player's channel unchanged, whatever the buffer held.
C18_NullChannelClearsBuffer ==
    [][(last'.op = "on_voice_state_update" /\ last'.arg[2] = None) =>
         /\ voiceState'[last'.p].sessionId = None
         /\ voiceState'[last'.p].event = None
         /\ sent' = <<>>
         /\ channel' = channel]_vars

C18_Witness ==
    /\ last.op = "on_voice_state_update"
    /\ last.arg[2] = None
    /\ voiceState[last.p] = [sessionId |-> None, event |-> None]
    /\ sent = <<>>
    /\ channel[last.p] = "c2"

\* C19: the outcome of getTracks is determined by the transport status and
\* the loadType: a status other than 200 raises LavalinkException whatever
\* the body; on 200, NO_MATCHES returns None without error, LOAD_FAILED
\* raises LoadTrackError, TRACK_LOADED returns the first track, SEARCH_RESULT
\* returns one track per server entry in the server's order, and
\* PLAYLIST_LOADED returns the named collection with its tracks in the
\* server's order.
C19_GetTracksOutcome ==
    last.op = "getTracks" =>
        LET status == last.arg.status
            data == last.arg.data
            n == Len(data.tracks)
            sameOrder(ts) ==
                /\ Len(ts) = n
                /\ \A i \in 1..n : /\ ts[i].id = data.tracks[i].track
                                    /\ ts[i].info = data.tracks[i].info
        IN  IF status # 200 THEN err = "LavalinkException"
            ELSE CASE data.loadType = "NO_MATCHES" ->
                          err = "none" /\ ret = None
                   [] data.loadType = "LOAD_FAILED" -> err = "LoadTrackError"
                   [] data.loadType = "TRACK_LOADED" /\ n > 0 ->
                          /\ err = "none"
                          /\ ret # None
                          /\ ret[1].id = data.tracks[1].track
                          /\ ret[1].info = data.tracks[1].info
                   [] data.loadType = "SEARCH_RESULT" ->
                          err = "none" /\ ret # None /\ sameOrder(ret[1])
                   [] data.loadType = "PLAYLIST_LOADED" ->
                          /\ err = "none"
                          /\ ret # None
                          /\ ret[1].name = data.playlistInfo[1]
                          /\ sameOrder(ret[1].tracks)
                   [] OTHER -> TRUE

C19_Witness ==
    /\ last.op = "getTracks"
    /\ last.arg.status = 200
    /\ last.arg.data.loadType = "PLAYLIST_LOADED"
    /\ Len(last.arg.data.tracks) = 2
    /\ last.arg.data.tracks[1] # last.arg.data.tracks[2]
    /\ err = "none"
    /\ ret # None
    /\ ret[1].tracks[1].id = last.arg.data.tracks[1].track

\* C20: for event data that carries the detail under error or under
\* exception (or both), building the track-exception event succeeds and its
\* payload holds the player, the track and the detail: the error value when
\* error is present, otherwise the exception value.
C20_TrackExceptionTolerant ==
    (/\ last.op = "TrackExceptionEvent"
     /\ (last.arg.data.error # None \/ last.arg.data.exception # None)) =>
        LET data == last.arg.data
            detail == IF data.error # None THEN data.error[1]
                      ELSE data.exception[1]
        IN  /\ err = "none"
            /\ ret = Some([event |-> "track_exception",
                           payload |-> [player |-> last.p,
                                        track |-> last.arg.track,
                                        exception |-> detail]])

\* C21: local state is written before the frame is sent: when play, stop,
\* pause, resume or setVolume hands its frame to send, the Player already
\* holds the new value (play: the track and the volume; stop: no track;
\* pause/resume: the paused flag; setVolume: the volume), and the return or
\* failure of the send changes none of them.
C21_LocalWriteBeforeSend ==
    [][/\ Len(pending') > Len(pending) =>
            LET e == pending'[Len(pending')]
                f == e.frame
            IN  CASE f.op = "play" ->
                        /\ track'[e.p] # None
                        /\ track'[e.p][1].id = f.track
                        /\ ToString(volume'[e.p]) = f.volume
                  [] f.op = "stop" -> track'[e.p] = None
                  [] f.op = "pause" -> Truthy(paused'[e.p]) = f.pause
                  [] f.op = "volume" -> volume'[e.p] = f.volume
                  [] OTHER -> TRUE
       /\ Len(pending') < Len(pending) => UNCHANGED <<track, volume, paused>>
      ]_vars

\* C22: the position snapshot is updated when a command is issued: a
\* position read that follows a successful seek(pos) on a paused, playing
\* Player returns pos (capped at the track's length), and one that follows the
\* play of a track returns that play's startTime in seconds, without a
\* playerUpdate message in between.
C22_SeekUpdatesSnapshot ==
    [][(/\ last'.op = "position"
        /\ last'.p = last.p
        /\ last.op \in {"seek", "play"}
        /\ err = "none"
        /\ sent # <<>>
        /\ isPlaying(last.p)
        /\ Truthy(isPaused(last.p))
        /\ lastPosition[last.p] # None) =>
            LET length == track[last.p][1].length
            IN  IF last.op = "seek"
                THEN last.arg >= 0 => ret' = Some(Min(last.arg, length))
                ELSE ret' = Some(Min(last.arg.startTime \div 1000, length))
      ]_vars

\* C23: the position snapshot is that of the most recent playerUpdate
\* message: handling a message sets the snapshot's time and position to the
\* message's time and position in seconds (milliseconds / 1000), the position
\* being 0 when the message omits it, whatever the snapshot held before; no
\* other step changes the snapshot.
C23_SnapshotIsLastUpdate ==
    [][IF last'.op = "_updateState"
       THEN LET time == last'.arg[1]
                pos == last'.arg[2]
                q == last'.p
            IN  /\ lastUpdateTime'[q] # None
                /\ lastPosition'[q] # None
                /\ 1000 * lastUpdateTime'[q][1] = time
                /\ 1000 * lastPosition'[q][1] = (IF pos = None THEN 0 ELSE pos[1])
                /\ \A o \in Players \ {q} :
                      /\ lastUpdateTime'[o] = lastUpdateTime[o]
                      /\ lastPosition'[o] = lastPosition[o]
       ELSE UNCHANGED <<lastUpdateTime, lastPosition>>
      ]_vars

C23_Witness ==
    /\ last.op = "_updateState"
    /\ last.arg = <<1000, None>>
    /\ lastUpdateTime[last.p] = Some(1)
    /\ lastPosition[last.p] = Some(0)
    /\ track[last.p] # None

\* C24: no torn snapshot: in every state the commands, the dispatch loop's
\* playerUpdate handling and the position reads can reach by interleaving at
\* the commands' suspension points, a Player's snapshot is either absent or
\* holds the time and the position of one and the same playerUpdate message.
C24_NoTornSnapshot ==
    \A q \in Players :
        \/ lastUpdateTime[q] = None /\ lastPosition[q] = None
        \/ /\ lastUpdateTime[q] # None
           /\ lastPosition[q] # None
           /\ \E m \in PlayerUpdates :
                 /\ 1000 * lastUpdateTime[q][1] = m.time
                 /\ 1000 * lastPosition[q][1] =
                        (IF m.position = None THEN 0 ELSE m.position[1])

C24_Witness ==
    /\ last.op = "position"
    /\ pending # <<>>
    /\ \E i \in 1..Len(pending) : pending[i].frame.op = "pause"
    /\ lastUpdateTime[last.p] = Some(2)
    /\ lastPosition[last.p] = Some(2)
    /\ err = "none"
    /\ ret = Some(2)

\* C25: whenever isPlaying is true both the last update time and the last
\* position are set, and a position read never raises.
C25_PlayingHasSnapshot ==
    /\ \A q \in Players :
          isPlaying(q) => lastUpdateTime[q] # None /\ lastPosition[q] # None
    /\ last.op = "position" => err = "none"

\* C26: the local paused flag agrees with the last pause state sent to the
\* server: when play, pause or resume has sent its frame, isPaused is true
\* exactly if the frame's pause value is true.
C26_PausedMatchesLastFrame ==
    (/\ last.op \in {"play", "pause", "resume"}
     /\ sent # <<>>
     /\ err = "none") =>
        Truthy(isPaused(last.p)) = sent[1].pause

\* occurrences of x in the list s
Count(s, x) == Cardinality({i \in 1..Len(s) : s[i] = x})

\* C27: a Player is in its Node's player list exactly once when isConnected
\* is true and not at all when isConnected is false.
C27_AttachedOnceIffConnected ==
    \A q \in Players :
        Count(players, q) = (IF isConnected(q) THEN 1 ELSE 0)

====
